---------------------------- MODULE Spec2Model ----------------------------
(***************************************************************************)
(* Repo-Manager (src/src/App.tsx): the React component App as a state      *)
(* machine.  The component's useState cells are the variables; every event *)
(* handler and every continuation of an async function (the code between   *)
(* two awaits) is one atomic action, because JavaScript runs a handler or  *)
(* a continuation to completion before the next event is dispatched.       *)
(* Remote calls (GET /user, GET /user/repos, DELETE /repos/..) are         *)
(* suspension points; their responses are chosen nondeterministically.     *)
(* The two effects (lines 73-86) that fill the cells filteredRepositories   *)
(* and languages run within the step of an event of the user, and in a     *)
(* step of their own (runEffects) after the render of a continuation.      *)
(***************************************************************************)
EXTENDS Integers, Sequences, FiniteSets, TLC

\* ------------------------------------------------------------------ bounds
MaxItems == 2          \* repository identifiers are 1..MaxItems
MaxFetch == 1          \* load-button fetches that may be in flight together
MaxCatalog == 3        \* length of the catalogs that filterRepositories is tried on

Ids == 1..MaxItems
MaxOverlap == 1        \* calls of confirmDelete that may start while another is active
RunIds == 1..(MaxOverlap + 1)  \* the frames of the calls of confirmDelete

\* --------------------------------------------------------- message strings
None == "none"
Login == "octocat"
MsgNoScope == "Token does not have delete_repo scope. Please generate a new token with the delete_repo permission."
MsgInvalidToken == "Invalid token. Please check your token and try again."
MsgVerifyFallback == "Failed to verify token permissions. Please ensure your token is valid and has the delete_repo scope."
MsgFetchFallback == "Failed to fetch repositories. Please check your token."
MsgUnknown == "Unknown error occurred"
MsgAllDeleted == "All selected repositories were deleted successfully!"

\* A banner (error / success) is the empty sequence for '' and a sequence of
\* the template's parts otherwise.
NoBanner == <<>>
Banner(text) == <<text>>
SummaryMsg(failureCount, successCount) ==
  <<"Failed to delete", failureCount, "repositories.", successCount,
    "repositories were deleted successfully.">>

\* ------------------------------------------------------- remote responses
\* The x-oauth-scopes header as a sequence of tokens: "," separates entries,
\* " " is white space, anything else is (part of) a scope name.
ScopeHeaders ==
  { <<>>,
    <<"delete_repo">>,
    <<"repo", ",", " ", "delete_repo">>,
    <<" ", "delete_repo", " ", ",", "repo">>,
    <<"delete_repo", " ", "repo">>,
    <<"repo", ",", "delete_repo_hook">> }

IdentityResponses ==
  { [status |-> 200, scopes |-> h, message |-> ""] : h \in ScopeHeaders }
  \cup { [status |-> 401, scopes |-> <<>>, message |-> "Bad credentials"],
         [status |-> 500, scopes |-> <<>>, message |-> "Server Error"],
         [status |-> 500, scopes |-> <<>>, message |-> ""] }

RemoteMessages == {"Not Found"}
\* Outcome of DELETE /repos/{owner}/{repo}: success, or an error whose
\* response body carries a message, or an error without one (None).
DeleteOutcomes ==
  { [ok |-> TRUE, message |-> None] }
  \cup { [ok |-> FALSE, message |-> m] : m \in RemoteMessages \cup {None} }

Range(s) == { s[k] : k \in DOMAIN s }

\* What GET /user/repos may return: the account holds the repositories 1..n
\* for some n, listed most recently updated first (sort: 'updated'), the
\* younger repository being the more recently updated one.
Listing(n) == [k \in 1..n |-> n + 1 - k]
Listings == { Listing(n) : n \in 0..MaxItems }
ListingResponses ==
  { [ok |-> TRUE, data |-> l, message |-> ""] : l \in Listings }
  \cup { [ok |-> FALSE, data |-> <<>>, message |-> m] : m \in {"Server Error", ""} }


\* -------------------------------------------------- verifyTokenPermissions
\* String.prototype.split(','): the entries between the separators; a
\* string without separator (also the empty one) is one entry.
RECURSIVE Split(_)
Split(h) ==
  IF \A k \in DOMAIN h : h[k] # ","
  THEN << h >>
  ELSE LET k == CHOOSE j \in DOMAIN h : h[j] = "," /\ \A l \in 1..(j - 1) : h[l] # ","
       IN  << SubSeq(h, 1, k - 1) >> \o Split(SubSeq(h, k + 1, Len(h)))

\* String.prototype.trim(): white space removed at both ends.
RECURSIVE Trim(_)
Trim(s) ==
  IF s = <<>> THEN s
  ELSE IF Head(s) = " " THEN Trim(Tail(s))
  ELSE IF s[Len(s)] = " " THEN Trim(SubSeq(s, 1, Len(s) - 1))
  ELSE s

\* Mutant: a scope whose name begins with delete_repo is taken for it.
hasDeleteScope_Substring(scopes) ==
  \E k \in DOMAIN scopes : scopes[k] \in {"delete_repo", "delete_repo_hook"}
\* scopes.split(',').map(s => s.trim()).includes('delete_repo')
hasDeleteScope(scopes) ==
  \E k \in DOMAIN Split(scopes) : Trim(Split(scopes)[k]) = << "delete_repo" >>

\* The result of verifyTokenPermissions for an identity response: the login,
\* or the message of the Error it throws.
verifyTokenPermissions(resp) ==
  IF resp.status = 200
  THEN IF hasDeleteScope(resp.scopes)
       THEN [ok |-> TRUE, login |-> Login, message |-> ""]
       ELSE [ok |-> FALSE, login |-> None, message |-> MsgNoScope]
  ELSE IF resp.status = 401
       THEN [ok |-> FALSE, login |-> None, message |-> MsgInvalidToken]
       ELSE [ok |-> FALSE, login |-> None,
             message |-> IF resp.message # "" THEN resp.message ELSE MsgVerifyFallback]

\* What verifyTokenPermissions gives for each response to GET /user.
VerifyOutcomes == [resp \in IdentityResponses |-> verifyTokenPermissions(resp)]

\* ------------------------------------------------------ the remote account
\* A string that the code takes apart (name, description, search term) is
\* the sequence of its characters; null is None.
Lower(c) ==
  CASE c = "A" -> "a" [] c = "B" -> "b" [] c = "C" -> "c" [] c = "I" -> "i"
    [] c = "L" -> "l" [] c = "P" -> "p" [] OTHER -> c
toLowerCase(s) == [k \in DOMAIN s |-> Lower(s[k])]
\* String.prototype.includes
includes(s, t) ==
  \E k \in 0..(Len(s) - Len(t)) : SubSeq(s, k + 1, k + Len(t)) = t

\* The fields of the repository with identifier id that GET /user/repos
\* returns and the code reads.  The dates are in time units; the younger
\* repository is the more recently updated one.
RepoIds == 1..(IF MaxCatalog > MaxItems THEN MaxCatalog ELSE MaxItems)
RemoteRepos ==
  [id \in RepoIds |->
  CASE id = 1 -> [name |-> <<"a", "p", "i">>, description |-> None,
                  private |-> TRUE, language |-> "Go",
                  stargazers_count |-> 1, forks_count |-> 0,
                  created_at |-> 2, updated_at |-> 1]
    [] id = 2 -> [name |-> <<"B", "l", "o", "g">>,
                  description |-> <<"A", "P", "I", " ", "l", "o", "g">>,
                  private |-> FALSE, language |-> "TypeScript",
                  stargazers_count |-> 1, forks_count |-> 2,
                  created_at |-> 1, updated_at |-> 2]
    [] id = 3 -> [name |-> <<"c", "l", "i">>, description |-> <<>>,
                  private |-> TRUE, language |-> None,
                  stargazers_count |-> 0, forks_count |-> 2,
                  created_at |-> 3, updated_at |-> 3]
    [] OTHER  -> [name |-> <<"l", "a", "b">>, description |-> None,
                  private |-> FALSE, language |-> "Go",
                  stargazers_count |-> 0, forks_count |-> 0,
                  created_at |-> id, updated_at |-> id]]
RemoteRepo(id) == RemoteRepos[id]

\* ------------------------------------------------------ filterRepositories
DefaultFilters ==
  [private |-> FALSE, public |-> FALSE, sortBy |-> "updated", language |-> ""]

\* Mutant: the search looks at the names only.
MatchesSearch_NameOnly(repo, term) ==
  includes(toLowerCase(RemoteRepo(repo.id).name), toLowerCase(term))
\* repo.name.toLowerCase().includes(searchTerm.toLowerCase()) ||
\* repo.description?.toLowerCase().includes(searchTerm.toLowerCase())
MatchesSearch(repo, term) ==
  \/ includes(toLowerCase(RemoteRepo(repo.id).name), toLowerCase(term))
  \/ /\ RemoteRepo(repo.id).description # None
     /\ includes(toLowerCase(RemoteRepo(repo.id).description), toLowerCase(term))

\* Mutant: the private flag is not looked at.
MatchesVisibility_PublicOnly(repo, f) ==
  IF f.public /\ ~f.private THEN ~RemoteRepo(repo.id).private ELSE TRUE
\* if (private && !public) keep the private ones; else if (public && !private)
\* keep the public ones
MatchesVisibility(repo, f) ==
  IF f.private /\ ~f.public THEN RemoteRepo(repo.id).private
  ELSE IF f.public /\ ~f.private THEN ~RemoteRepo(repo.id).private
  ELSE TRUE

\* Mutant: the language tags are compared in lower case.
LowerTag(l) == CASE l = "Go" -> "go" [] l = "TypeScript" -> "typescript" [] OTHER -> l
MatchesLanguage_IgnoresCase(repo, f) ==
  f.language # "" => LowerTag(RemoteRepo(repo.id).language) = LowerTag(f.language)
\* if (filters.language) keep repo.language === filters.language
MatchesLanguage(repo, f) ==
  f.language # "" => RemoteRepo(repo.id).language = f.language

\* String.prototype.localeCompare for names made of letters: the letters
\* decide in alphabetical order whatever their case; between names that
\* differ in case only, the lower-case letter comes first.
Letters == << "a", "b", "c", "d", "e", "f", "g", "h", "i", "j", "k", "l", "m",
              "n", "o", "p", "q", "r", "s", "t", "u", "v", "w", "x", "y", "z" >>
LetterRank(c) == CHOOSE k \in DOMAIN Letters : Letters[k] = Lower(c)
RECURSIVE CompareLetters(_, _)
CompareLetters(a, b) ==
  IF a = <<>> /\ b = <<>> THEN 0
  ELSE IF a = <<>> THEN -1
  ELSE IF b = <<>> THEN 1
  ELSE IF LetterRank(Head(a)) # LetterRank(Head(b))
       THEN LetterRank(Head(a)) - LetterRank(Head(b))
       ELSE CompareLetters(Tail(a), Tail(b))
RECURSIVE CompareCase(_, _)
CompareCase(a, b) ==
  IF a = <<>> \/ b = <<>> THEN 0
  ELSE IF Head(a) = Head(b) THEN CompareCase(Tail(a), Tail(b))
  ELSE IF Head(a) = Lower(Head(a)) THEN -1 ELSE 1
localeCompare(a, b) ==
  IF CompareLetters(a, b) # 0 THEN CompareLetters(a, b) ELSE CompareCase(a, b)

\* The comparator of filtered.sort((a, b) => ...): negative when a goes first.
CompareRepos(sortBy, a, b) ==
  CASE sortBy = "name" -> localeCompare(RemoteRepo(a.id).name, RemoteRepo(b.id).name)
    [] sortBy = "created" -> RemoteRepo(b.id).created_at - RemoteRepo(a.id).created_at
    [] sortBy = "updated" -> RemoteRepo(b.id).updated_at - RemoteRepo(a.id).updated_at
    [] sortBy = "stars" -> RemoteRepo(b.id).stargazers_count - RemoteRepo(a.id).stargazers_count
    [] sortBy = "forks" -> RemoteRepo(b.id).forks_count - RemoteRepo(a.id).forks_count
    [] OTHER -> 0

\* Mutant: an unstable sort, which puts an item before the items it ties with.
RECURSIVE InsertSorted_Unstable(_, _, _)
InsertSorted_Unstable(sorted, repo, sortBy) ==
  IF sorted = <<>> THEN << repo >>
  ELSE IF CompareRepos(sortBy, sorted[Len(sorted)], repo) >= 0
       THEN Append(InsertSorted_Unstable(SubSeq(sorted, 1, Len(sorted) - 1), repo, sortBy),
                   sorted[Len(sorted)])
       ELSE Append(sorted, repo)
\* Array.prototype.sort is stable: an item goes behind the items that the
\* comparator does not put behind it.
RECURSIVE InsertSorted(_, _, _)
InsertSorted(sorted, repo, sortBy) ==
  IF sorted = <<>> THEN << repo >>
  ELSE IF CompareRepos(sortBy, sorted[Len(sorted)], repo) > 0
       THEN Append(InsertSorted(SubSeq(sorted, 1, Len(sorted) - 1), repo, sortBy),
                   sorted[Len(sorted)])
       ELSE Append(sorted, repo)
RECURSIVE SortRepos(_, _)
SortRepos(repos, sortBy) ==
  IF repos = <<>> THEN <<>>
  ELSE InsertSorted(SortRepos(SubSeq(repos, 1, Len(repos) - 1), sortBy),
                    repos[Len(repos)], sortBy)

\* The arrays that a run of filterRepositories works with, by reference,
\* and the array that its variable filtered names.  The catalog's array is
\* the first one.
CatalogRef == 1
Arrays(repos) == [arrays |-> << repos >>, filtered |-> CatalogRef]

\* Mutant: let filtered = repositories, without the copy: filtered names
\* the catalog's own array.
Spread_Alias(mem) == [mem EXCEPT !.filtered = CatalogRef]
\* let filtered = [...repositories]: a new array with the catalog's items.
Spread(mem) ==
  [arrays |-> Append(mem.arrays, mem.arrays[CatalogRef]),
   filtered |-> Len(mem.arrays) + 1]

\* filtered = filtered.filter(test): a new array with the items that pass
\* the test, which are the items in passing.
FilterInto(mem, passing) ==
  [arrays |-> Append(mem.arrays,
                     SelectSeq(mem.arrays[mem.filtered],
                               LAMBDA repo : repo \in passing)),
   filtered |-> Len(mem.arrays) + 1]

\* filtered.sort(comparator): Array.prototype.sort sorts the array that
\* filtered names, in place.
SortInPlace(mem, sortBy) ==
  [mem EXCEPT !.arrays[mem.filtered] = SortRepos(@, sortBy)]

\* An item passes the three filters.
Kept(repo, term, f) ==
  /\ term # <<>> => MatchesSearch(repo, term)
  /\ MatchesVisibility(repo, f)
  /\ MatchesLanguage(repo, f)

\* The body of filterRepositories up to setFilteredRepositories(filtered):
\* the arrays when it is through.
filterRepositoriesRun(repos, term, f) ==
  LET items == { repos[k] : k \in DOMAIN repos }
      copied == Spread(Arrays(repos))
      searched == IF term # <<>>
                  THEN FilterInto(copied, { repo \in items : MatchesSearch(repo, term) })
                  ELSE copied
      visible == IF f.private # f.public
                 THEN FilterInto(searched, { repo \in items : MatchesVisibility(repo, f) })
                 ELSE searched
      spoken == IF f.language # ""
                THEN FilterInto(visible, { repo \in items : MatchesLanguage(repo, f) })
                ELSE visible
  IN  SortInPlace(spoken, f.sortBy)

\* The value that filterRepositories passes to setFilteredRepositories.
filterRepositories(repos, term, f) ==
  LET mem == filterRepositoriesRun(repos, term, f)
  IN  mem.arrays[mem.filtered]

\* The catalog's array after a run of filterRepositories.
filterRepositoriesCatalog(repos, term, f) ==
  filterRepositoriesRun(repos, term, f).arrays[CatalogRef]

\* ------------------------------------------------------------------- state
VARIABLES
  token,                  \* useState(''): the credential input
  repositories,           \* useState([]): the catalog, a sequence of items
  loading,                \* useState(false)
  error,                  \* useState(''): the error banner
  success,                \* useState(''): the success banner
  deleteInProgress,       \* useState(false)
  deleteConfirmationOpen, \* useState(false): the confirmation dialog
  confirmationLeaving,    \* the confirmation dialog is in its leave transition
  filterModalOpen,        \* useState(false): the filter dialog
  filterModalLeaving,     \* the filter dialog is in its leave transition
  fetching,               \* calls of fetchRepositories by the Load button in flight
  runs,                   \* the invocations of confirmDelete, by slot
  overlaps,               \* history: the calls of confirmDelete started while
                          \* another call was active
  searchTerm,             \* useState(''): the search box
  filters,                \* useState({private, public, sortBy, language})
  languages,              \* useState([]): the options of the language select
  filteredRepositories,   \* useState([]): the list that the rows are made from
  selOrder,               \* history: the selected identifiers, oldest selection first
  trackOrder              \* whether selOrder is being recorded: under SpecOrder,
                          \* until the first confirmation

vars == << token, repositories, searchTerm, filters, languages,
           filteredRepositories,
           loading, error, success, deleteInProgress,
           deleteConfirmationOpen, confirmationLeaving, filterModalOpen,
           filterModalLeaving, fetching, runs, overlaps, selOrder,
           trackOrder >>

\* What the user types into the credential field.
Tokens == {"ghp_token"}

\* An item as GET /user/repos returns it, with selected: false added.
FreshItem(id) ==
  [id |-> id, selected |-> FALSE, deleteStatus |-> "unset", errorMessage |-> None]

\* A call of confirmDelete: its position (pc), its locals (selectedRepos,
\* the loop position i, successCount, failureCount, username) and, as
\* history, the DELETE calls it has made (calls), the number of times it has
\* called fetchRepositories (refetches), the catalog's identifiers (catalog)
\* and the user's selection order (order) when it started and, where the
\* order is recorded, the rows, the search term and the filters of that
\* moment (view, of one entry).
IdleRun ==
  [pc |-> "idle", selectedRepos |-> <<>>, i |-> 0, successCount |-> 0,
   failureCount |-> 0, username |-> None,
   calls |-> <<>>, refetches |-> 0, catalog |-> <<>>, order |-> <<>>,
   view |-> <<>>]

Init ==
  /\ token = ""
  /\ repositories = <<>>
  /\ searchTerm = <<>>
  /\ filters = DefaultFilters
  /\ languages = <<>>
  /\ filteredRepositories = <<>>
  /\ loading = FALSE
  /\ error = NoBanner
  /\ success = NoBanner
  /\ deleteInProgress = FALSE
  /\ deleteConfirmationOpen = FALSE
  /\ confirmationLeaving = FALSE
  /\ filterModalOpen = FALSE
  /\ filterModalLeaving = FALSE
  /\ fetching = 0
  /\ runs = [r \in RunIds |-> IdleRun]
  /\ overlaps = 0
  /\ selOrder = <<>>
  /\ trackOrder = FALSE


\* ------------------------------------------------ catalog transformations
Without(seq, id) == SelectSeq(seq, LAMBDA x : x # id)
IdsOf(repos) == [k \in DOMAIN repos |-> repos[k].id]
IsSelected(repo) == repo.selected

\* Mutant: the run takes every item of the catalog, selected or not.
selectedRepos_All(repos) == IdsOf(repos)
\* Mutant: filteredRepositories.filter(repo => repo.selected), the selected
\* items as the rows show them.
selectedRepos_Displayed(repos) == IdsOf(SelectSeq(filteredRepositories, IsSelected))
\* repositories.filter(repo => repo.selected); of the items kept, the code
\* reads id and name only, so the identifiers stand for the items.
selectedRepos(repos) == IdsOf(SelectSeq(repos, IsSelected))

\* repos.map(repo => repo.selected ? {...repo, deleteStatus: 'pending'} : repo)
MarkPending(repos) ==
  [k \in DOMAIN repos |->
     IF repos[k].selected THEN [repos[k] EXCEPT !.deleteStatus = "pending"]
     ELSE repos[k]]

\* repos.map(r => r.id === repo.id ? {...r, deleteStatus: 'success'} : r)
MarkSuccess(repos, id) ==
  [k \in DOMAIN repos |->
     IF repos[k].id = id THEN [repos[k] EXCEPT !.deleteStatus = "success"]
     ELSE repos[k]]

\* err.response?.data?.message || 'Unknown error occurred'
DeleteErrorMessage(out) == IF out.message # None THEN out.message ELSE MsgUnknown

\* repos.map(r => r.id === repo.id ? {...r, deleteStatus: 'error', errorMessage} : r)
MarkError(repos, id, errorMessage) ==
  [k \in DOMAIN repos |->
     IF repos[k].id = id
     THEN [repos[k] EXCEPT !.deleteStatus = "error", !.errorMessage = errorMessage]
     ELSE repos[k]]

\* Mutant: an item that the catalog already holds is kept as it is.
LoadedCatalog_KeepsKnown(data) ==
  [k \in DOMAIN data |->
     IF \E j \in DOMAIN repositories : repositories[j].id = data[k]
     THEN repositories[CHOOSE j \in DOMAIN repositories : repositories[j].id = data[k]]
     ELSE FreshItem(data[k])]
\* response.data.map(repo => ({...repo, selected: false}))
LoadedCatalog(data) == [k \in DOMAIN data |-> FreshItem(data[k])]

\* ------------------------------------------------------ the languages effect
\* Array.prototype.sort without a comparator orders strings by their code
\* units: capitals before small letters.  The language tags in that order.
TagOrder == << "Go", "TypeScript", "go" >>
\* The distinct non-null language tags of the catalog.
LanguagesOf(repos) ==
  { RemoteRepo(repos[k].id).language : k \in DOMAIN repos } \ { None }
\* Array.from(new Set(tags without null)).sort(), for the repositories of
\* each set of identifiers.
SortedLanguages ==
  [S \in SUBSET RepoIds |->
     SelectSeq(TagOrder, LAMBDA l : \E id \in S : RemoteRepo(id).language = l)]
\* useEffect(() => { if (repositories.length > 0) setLanguages(Array.from(new
\* Set(tags without null)).sort()) }, [repositories]): the value of languages
\* after the effect has run for the catalog repos.
languagesEffect(repos, old) ==
  IF Len(repos) > 0 THEN SortedLanguages[{ repos[k].id : k \in DOMAIN repos }] ELSE old

\* ------------------------------------------------- renders and their effects
\* useEffect(() => { filterRepositories() }, [repositories, searchTerm,
\* filters]) and the languages effect run after the render that follows a
\* change of their dependencies, with the values of that render.  The two
\* cells as the effects of the render of the current state leave them.
EffectsDone ==
  /\ filteredRepositories = filterRepositories(repositories, searchTerm, filters)
  /\ languages = languagesEffect(repositories, languages)

\* The render that a click or a key causes: the effects that an earlier
\* render left to run are run first, and the effects of this render are
\* run before the event is over, so that the cells hold the values derived
\* from the state that the handler has written.
EventRender ==
  /\ filteredRepositories' = filterRepositories(repositories', searchTerm', filters')
  /\ languages' = languagesEffect(repositories', languagesEffect(repositories, languages))

\* The render that the continuation of a response or a timer causes: the
\* effects that an earlier render left to run are run first; the effects of
\* this render run later (runEffects), and until then the cells hold the
\* values derived from the state before the continuation.
ContinuationRender ==
  /\ filteredRepositories' = filterRepositories(repositories, searchTerm, filters)
  /\ languages' = languagesEffect(repositories, languages)

\* The rows of the list: filteredRepositories.map(...), inside of the block
\* of the catalog (repositories.length > 0 && ...).
Rows == IF Len(repositories) > 0 THEN filteredRepositories ELSE <<>>

\* --------------------------------------------------------- user interface
\* <Transition show={deleteConfirmationOpen}>: the dialog and its buttons are
\* on the screen while the flag is set and, after the flag is cleared, for
\* the leave transition (leave="ease-in duration-200").
ConfirmationOnScreen == deleteConfirmationOpen \/ confirmationLeaving
\* <Transition show={filterModalOpen}>, rendered outside of the block of the
\* catalog: the same for the filter dialog.
FilterModalOnScreen == filterModalOpen \/ filterModalLeaving

\* The Transition of a dialog after a step that takes its show flag from
\* show to shown: it leaves once the flag is cleared, until the leave
\* transition ends or the flag is set again.
Leaving(show, shown, leaving) == ~shown /\ (show \/ leaving)

\* The page behind a dialog is covered by the dialog's overlay (fixed
\* inset-0): its controls receive no clicks while a dialog is on the screen.
PageInteractive == ~ConfirmationOnScreen /\ ~FilterModalOnScreen

\* Load button: disabled={!token || loading}
LoadEnabled == token # "" /\ ~loading

\* Delete Selected button: disabled={deleteInProgress || !repositories.some(r => r.selected)}
DeleteSelectedEnabled ==
  ~deleteInProgress /\ \E k \in DOMAIN repositories : repositories[k].selected

\* Item check box: disabled={repo.deleteStatus === 'pending'}
CheckboxEnabled(repo) == repo.deleteStatus # "pending"

setToken(t) ==
  /\ PageInteractive
  /\ t # token
  /\ token' = t
  /\ UNCHANGED << overlaps, confirmationLeaving, filterModalOpen,
                  filterModalLeaving, trackOrder, searchTerm,
                  filters, repositories, loading, error, success,
                  deleteInProgress, deleteConfirmationOpen, fetching, runs,
                  selOrder >>
  /\ EventRender

\* ------------------------------------------------------- fetchRepositories
\* err.message || 'Failed to fetch repositories. Please check your token.'
FetchErrorMessage(message) == IF message # "" THEN message ELSE MsgFetchFallback

\* The try block of fetchRepositories, for the responses to its two
\* requests: the listing's data, or the message of the error caught.  No
\* state is written between the two requests.
FetchResult(resp, listing) ==
  LET res == verifyTokenPermissions(resp)
  IN  IF ~res.ok
      THEN [ok |-> FALSE, data |-> <<>>, message |-> FetchErrorMessage(res.message)]
      ELSE IF ~listing.ok
      THEN [ok |-> FALSE, data |-> <<>>, message |-> FetchErrorMessage(listing.message)]
      ELSE [ok |-> TRUE, data |-> listing.data, message |-> ""]
FetchResults ==
  { FetchResult(resp, listing) : resp \in IdentityResponses, listing \in ListingResponses }

\* Load button: fetchRepositories up to its first await (GET /user).
fetchRepositories ==
  /\ PageInteractive
  /\ LoadEnabled
  /\ fetching < MaxFetch
  /\ loading' = TRUE
  /\ error' = NoBanner
  /\ success' = NoBanner
  /\ fetching' = fetching + 1
  /\ UNCHANGED << overlaps, confirmationLeaving, filterModalOpen,
                  filterModalLeaving, trackOrder, searchTerm,
                  filters, token, repositories, deleteInProgress,
                  deleteConfirmationOpen, runs, selOrder >>
  /\ EventRender

\* Mutant: after a failure the catalog is left as it was.
FetchSettles_KeepsStale(result) ==
  /\ IF result.ok
     THEN /\ repositories' = LoadedCatalog(result.data)
          /\ UNCHANGED error
     ELSE /\ error' = Banner(result.message)
          /\ UNCHANGED repositories
  /\ selOrder' = <<>>
  /\ loading' = FALSE
\* The rest of fetchRepositories, once its requests have returned: the
\* catalog is replaced (try) or cleared (catch), and loading ends (finally).
FetchSettles(result) ==
  /\ IF result.ok
     THEN /\ repositories' = LoadedCatalog(result.data)
          /\ UNCHANGED error
     ELSE /\ error' = Banner(result.message)
          /\ repositories' = <<>>
  /\ selOrder' = <<>>
  /\ loading' = FALSE

FetchReturn(result) ==
  /\ fetching > 0
  /\ fetching' = fetching - 1
  /\ FetchSettles(result)
  /\ UNCHANGED << overlaps, confirmationLeaving, filterModalOpen,
                  filterModalLeaving, trackOrder, searchTerm, filters, token,
                  success, deleteInProgress, deleteConfirmationOpen, runs >>
  /\ ContinuationRender

\* --------------------------------------------------------------- selection
\* Mutant: Select All reaches the displayed items only.
toggleSelectAll_ViewScoped(checked) ==
  /\ PageInteractive
  /\ Len(repositories) > 0
  /\ repositories' = [k \in DOMAIN repositories |->
                        IF \E d \in DOMAIN filteredRepositories :
                              filteredRepositories[d].id = repositories[k].id
                        THEN [repositories[k] EXCEPT !.selected = checked]
                        ELSE repositories[k]]
  /\ selOrder' = <<>>
  /\ UNCHANGED << overlaps, confirmationLeaving, filterModalOpen,
                  filterModalLeaving, trackOrder, searchTerm, filters, token,
                  loading, error, success, deleteInProgress,
                  deleteConfirmationOpen, fetching, runs >>
  /\ EventRender

\* The Select All check box: repos.map(repo => ({ ...repo, selected: checked }))
toggleSelectAll(checked) ==
  /\ PageInteractive
  /\ Len(repositories) > 0
  /\ repositories' = [k \in DOMAIN repositories |->
                        [repositories[k] EXCEPT !.selected = checked]]
  /\ selOrder' = IF checked /\ trackOrder
                 THEN selOrder \o SelectSeq(IdsOf(repositories),
                                            LAMBDA x : x \notin Range(selOrder))
                 ELSE <<>>
  /\ UNCHANGED << overlaps, confirmationLeaving, filterModalOpen,
                  filterModalLeaving, trackOrder, searchTerm, filters, token,
                  loading, error, success, deleteInProgress,
                  deleteConfirmationOpen, fetching, runs >>
  /\ EventRender

\* The check box of a row: the rows are made from filteredRepositories, in
\* the block of the catalog, and a row's check box is disabled by the status
\* that the row's item has in that list.  The function maps the catalog and
\* tests nothing.
toggleRepository(id) ==
  /\ PageInteractive
  /\ \E d \in DOMAIN Rows : Rows[d].id = id /\ CheckboxEnabled(Rows[d])
  /\ repositories' = [k \in DOMAIN repositories |->
                        IF repositories[k].id = id
                        THEN [repositories[k] EXCEPT !.selected = ~@]
                        ELSE repositories[k]]
  /\ selOrder' = IF \E k \in DOMAIN repositories :
                       repositories[k].id = id /\ ~repositories[k].selected /\ trackOrder
                 THEN Append(selOrder, id)
                 ELSE Without(selOrder, id)
  /\ UNCHANGED << overlaps, confirmationLeaving, filterModalOpen,
                  filterModalLeaving, trackOrder, searchTerm, filters, token,
                  loading, error, success, deleteInProgress,
                  deleteConfirmationOpen, fetching, runs >>
  /\ EventRender

\* Mutant: the dialog stays open over an empty selection.
removeFromSelection_StaysOpen(id) ==
  /\ ConfirmationOnScreen
  /\ \E k \in DOMAIN repositories : repositories[k].id = id /\ repositories[k].selected
  /\ repositories' = [k \in DOMAIN repositories |->
                        IF repositories[k].id = id
                        THEN [repositories[k] EXCEPT !.selected = FALSE]
                        ELSE repositories[k]]
  /\ selOrder' = Without(selOrder, id)
  /\ UNCHANGED << overlaps, confirmationLeaving, filterModalOpen,
                  filterModalLeaving, trackOrder, searchTerm, filters, token,
                  loading, error, success, deleteInProgress,
                  deleteConfirmationOpen, fetching, runs >>
  /\ EventRender

\* The remove button of an entry of the confirmation dialog, which lists
\* the selected items; the function tests nothing before it writes.
removeFromSelection(id) ==
  /\ ConfirmationOnScreen
  /\ \E k \in DOMAIN repositories : repositories[k].id = id /\ repositories[k].selected
  /\ repositories' = [k \in DOMAIN repositories |->
                        IF repositories[k].id = id
                        THEN [repositories[k] EXCEPT !.selected = FALSE]
                        ELSE repositories[k]]
  /\ selOrder' = Without(selOrder, id)
  /\ LET remainingSelected ==
           Len(SelectSeq(repositories, LAMBDA repo : repo.id # id /\ repo.selected))
     IN  deleteConfirmationOpen' = IF remainingSelected = 0 THEN FALSE
                                   ELSE deleteConfirmationOpen
  /\ confirmationLeaving' =
       Leaving(deleteConfirmationOpen, deleteConfirmationOpen', confirmationLeaving)
  /\ UNCHANGED << overlaps, filterModalOpen, filterModalLeaving,
                  trackOrder, searchTerm, filters, token, loading, error,
                  success, deleteInProgress, fetching, runs >>
  /\ EventRender

handleDeleteSelected ==
  /\ PageInteractive
  /\ Len(repositories) > 0
  /\ DeleteSelectedEnabled
  /\ IF Len(selectedRepos(repositories)) = 0
     THEN UNCHANGED deleteConfirmationOpen
     ELSE deleteConfirmationOpen' = TRUE
  /\ UNCHANGED << overlaps, confirmationLeaving, filterModalOpen,
                  filterModalLeaving, trackOrder, searchTerm,
                  filters, token, repositories, loading, error, success,
                  deleteInProgress, fetching, runs, selOrder >>
  /\ EventRender

\* Mutant: closing the dialog drops the selection.
closeConfirmation_Deselects ==
  /\ ConfirmationOnScreen
  /\ deleteConfirmationOpen' = FALSE
  /\ confirmationLeaving' = TRUE
  /\ repositories' = [k \in DOMAIN repositories |->
                        [repositories[k] EXCEPT !.selected = FALSE]]
  /\ UNCHANGED << overlaps, filterModalOpen, filterModalLeaving,
                  trackOrder, searchTerm, filters, token, loading,
                  error, success, deleteInProgress, fetching, runs, selOrder >>
  /\ EventRender

\* Cancel button, close button and Dialog onClose: setDeleteConfirmationOpen(
\* false), from a dialog that is open or leaving.
closeConfirmation ==
  /\ ConfirmationOnScreen
  /\ deleteConfirmationOpen' = FALSE
  /\ confirmationLeaving' = TRUE
  /\ UNCHANGED << overlaps, filterModalOpen, filterModalLeaving,
                  trackOrder, searchTerm, filters, token,
                  repositories, loading, error, success, deleteInProgress,
                  fetching, runs, selOrder >>
  /\ IF deleteConfirmationOpen THEN EventRender
     ELSE UNCHANGED << filteredRepositories, languages >>

\* The leave transition of the confirmation dialog ends (200 ms): the dialog
\* and its buttons are taken off the screen.
confirmationLeaveEnd ==
  /\ confirmationLeaving
  /\ confirmationLeaving' = FALSE
  /\ UNCHANGED << overlaps, filterModalOpen, filterModalLeaving,
                  trackOrder, searchTerm, filters, token,
                  repositories, loading, error, success, deleteInProgress,
                  deleteConfirmationOpen, fetching, runs, selOrder >>
  /\ ContinuationRender

\* ----------------------------------------------------------- confirmDelete
\* The frame of a call exists from the click to the end of its finally block.
RunActive(run) == run.pc # "idle"

NoRunActive == \A r \in RunIds : ~RunActive(runs[r])

\* A new call of confirmDelete gets a frame of its own.
FreeSlot == CHOOSE r \in RunIds :
              /\ ~RunActive(runs[r])
              /\ \A q \in RunIds : ~RunActive(runs[q]) => r <= q

\* Confirm button of the dialog: confirmDelete up to its first await, the
\* GET /user of verifyTokenPermissions.  The function tests neither
\* deleteInProgress nor deleteConfirmationOpen.  At most MaxOverlap calls of a
\* behaviour start while another call is active.
confirmDelete ==
  /\ ConfirmationOnScreen
  /\ NoRunActive \/ overlaps < MaxOverlap
  /\ overlaps' = IF NoRunActive THEN overlaps ELSE overlaps + 1
  /\ deleteConfirmationOpen' = FALSE
  /\ confirmationLeaving' = TRUE
  /\ deleteInProgress' = TRUE
  /\ error' = NoBanner
  /\ success' = NoBanner
  /\ runs' = [runs EXCEPT ![FreeSlot] =
                [IdleRun EXCEPT !.pc = "verify",
                                !.selectedRepos = selectedRepos(repositories),
                                !.catalog = IdsOf(repositories),
                                !.order = selOrder,
                                !.view = IF trackOrder
                                         THEN << [rows |-> IdsOf(Rows),
                                                  searchTerm |-> searchTerm,
                                                  filters |-> filters] >>
                                         ELSE <<>>]]
  /\ selOrder' = <<>>
  /\ trackOrder' = FALSE
  /\ UNCHANGED << filterModalOpen, filterModalLeaving,
                  token, repositories, loading, fetching, searchTerm,
                  filters >>
  /\ EventRender

\* Mutant: the loop is left at the first failure.
LoopContinues_StopOnFailure(run) ==
  run.failureCount = 0 /\ run.i < Len(run.selectedRepos)
\* for (const repo of selectedRepos): is there a next item?
LoopContinues(run) == run.i < Len(run.selectedRepos)

\* octokit.request('DELETE /repos/{owner}/{repo}', {owner: username, repo: repo.name})
IssueDelete(run) ==
  [run EXCEPT !.pc = "delete",
              !.i = @ + 1,
              !.calls = Append(@, [id |-> run.selectedRepos[run.i + 1],
                                   owner |-> run.username,
                                   state |-> "inflight", message |-> None])]

\* Mutant: the summary never takes the failure branch.
RunFailed_Never(run) == FALSE
\* if (failureCount > 0)
RunFailed(run) == run.failureCount > 0

\* successCount++ / failureCount++, with the outcome noted in the history
CountSuccess(run) ==
  [run EXCEPT !.successCount = @ + 1,
              !.calls[Len(run.calls)].state = "ok"]
\* Mutant: a failure is counted as a success.
CountFailure_AsSuccess(run, out) ==
  [run EXCEPT !.successCount = @ + 1,
              !.calls[Len(run.calls)].state = "failed",
              !.calls[Len(run.calls)].message = out.message]
CountFailure(run, out) ==
  [run EXCEPT !.failureCount = @ + 1,
              !.calls[Len(run.calls)].state = "failed",
              !.calls[Len(run.calls)].message = out.message]

\* The code from the head of the for loop onward, up to the next await:
\* the next DELETE is sent, or the loop is over and the summary is made:
\*   failures: setError(summary); finally setDeleteInProgress(false)
\*   none:     setSuccess(all deleted); fetchRepositories() up to GET /user,
\*             which does setLoading(true), setError(''), setSuccess('')
RunLoop(r, run, repos) ==
  /\ repositories' = repos
  /\ IF LoopContinues(run)
     THEN /\ runs' = [runs EXCEPT ![r] = IssueDelete(run)]
          /\ UNCHANGED << error, success, loading, deleteInProgress >>
     ELSE IF RunFailed(run)
     THEN /\ error' = SummaryMsg(run.failureCount, run.successCount)
          /\ deleteInProgress' = FALSE
          /\ runs' = [runs EXCEPT ![r] = IdleRun]
          /\ UNCHANGED << success, loading >>
     ELSE /\ success' = NoBanner
          /\ error' = NoBanner
          /\ loading' = TRUE
          /\ runs' = [runs EXCEPT ![r] = [run EXCEPT !.pc = "refetch",
                                                      !.refetches = @ + 1]]
          /\ UNCHANGED deleteInProgress

\* Mutant: the catch block clears the catalog, as the one of
\* fetchRepositories does.
AbortRun_ClearsCatalog(r, message) ==
  /\ error' = Banner(message)
  /\ deleteInProgress' = FALSE
  /\ runs' = [runs EXCEPT ![r] = IdleRun]
  /\ repositories' = <<>>
  /\ UNCHANGED << success, loading >>
\* Mutant: the verification error is swallowed and the run goes on.
AbortRun_GoesOn(r, message) == RunLoop(r, runs[r], MarkPending(repositories))
\* Mutant: setDeleteInProgress(false) is not in a finally block, and the
\* catch block leaves the flag set.
AbortRun_StaysInProgress(r, message) ==
  /\ error' = Banner(message)
  /\ runs' = [runs EXCEPT ![r] = IdleRun]
  /\ UNCHANGED << deleteInProgress, repositories, success, loading >>
\* catch (err) { setError(err.message) } finally { setDeleteInProgress(false) }
AbortRun(r, message) ==
  /\ error' = Banner(message)
  /\ deleteInProgress' = FALSE
  /\ runs' = [runs EXCEPT ![r] = IdleRun]
  /\ UNCHANGED << repositories, success, loading >>

\* GET /user returns to confirmDelete.
ConfirmVerifyReturn(r, resp) ==
  /\ runs[r].pc = "verify"
  /\ LET res == VerifyOutcomes[resp]
     IN  IF res.ok
         THEN RunLoop(r, [runs[r] EXCEPT !.username = res.login], MarkPending(repositories))
         ELSE AbortRun(r, res.message)
  /\ UNCHANGED << overlaps, confirmationLeaving, filterModalOpen,
                  filterModalLeaving, trackOrder, searchTerm, filters, token,
                  deleteConfirmationOpen, fetching, selOrder >>
  /\ ContinuationRender

\* Mutant: no delay after a successful call.
DeleteReturn_NoDelay(r, out) ==
  /\ runs[r].pc = "delete"
  /\ LET run == runs[r]
         id == run.selectedRepos[run.i]
     IN  IF out.ok
         THEN RunLoop(r, CountSuccess(run), MarkSuccess(repositories, id))
         ELSE RunLoop(r, CountFailure(run, out),
                      MarkError(repositories, id, DeleteErrorMessage(out)))
  /\ UNCHANGED << overlaps, confirmationLeaving, filterModalOpen,
                  filterModalLeaving, trackOrder, searchTerm, filters, token,
                  deleteConfirmationOpen, fetching, selOrder >>
  /\ ContinuationRender

\* DELETE returns: the status of the item is set; after a success the code
\* awaits the timer, after a failure it goes on with the loop.
DeleteReturn(r, out) ==
  /\ runs[r].pc = "delete"
  /\ LET run == runs[r]
         id == run.selectedRepos[run.i]
     IN  IF out.ok
         THEN /\ repositories' = MarkSuccess(repositories, id)
              /\ runs' = [runs EXCEPT ![r] = [CountSuccess(run) EXCEPT !.pc = "delay"]]
              /\ UNCHANGED << error, success, loading, deleteInProgress >>
         ELSE RunLoop(r, CountFailure(run, out),
                      MarkError(repositories, id, DeleteErrorMessage(out)))
  /\ UNCHANGED << overlaps, confirmationLeaving, filterModalOpen,
                  filterModalLeaving, trackOrder, searchTerm, filters, token,
                  deleteConfirmationOpen, fetching, selOrder >>
  /\ ContinuationRender

\* setTimeout(resolve, 1000) fires.  Where the loop goes on, the code calls
\* no set function up to the next DELETE and nothing is rendered; where the
\* loop is over, the summary is set and rendered.
DelayElapsed(r) ==
  /\ runs[r].pc = "delay"
  /\ RunLoop(r, runs[r], repositories)
  /\ UNCHANGED << overlaps, confirmationLeaving, filterModalOpen,
                  filterModalLeaving, trackOrder, searchTerm, filters, token,
                  deleteConfirmationOpen, fetching, selOrder >>
  /\ IF LoopContinues(runs[r])
     THEN UNCHANGED << filteredRepositories, languages >>
     ELSE ContinuationRender

\* The fetchRepositories that confirmDelete awaits settles; it catches its
\* errors, so confirmDelete goes on to its finally block in either case.
RefetchReturn(r, result) ==
  /\ runs[r].pc = "refetch"
  /\ FetchSettles(result)
  /\ deleteInProgress' = FALSE
  /\ runs' = [runs EXCEPT ![r] = IdleRun]
  /\ UNCHANGED << overlaps, confirmationLeaving, filterModalOpen,
                  filterModalLeaving, trackOrder, searchTerm, filters, token,
                  success, deleteConfirmationOpen, fetching >>
  /\ ContinuationRender

\* ------------------------------------------------------------- the effects
\* The effects that the render of a continuation left to run are run:
\* setFilteredRepositories(filtered) and setLanguages(uniqueLanguages), with
\* the values of that render.
runEffects ==
  /\ ~EffectsDone
  /\ filteredRepositories' = filterRepositories(repositories, searchTerm, filters)
  /\ languages' = languagesEffect(repositories, languages)
  /\ UNCHANGED << token, repositories, searchTerm, filters, loading, error,
                  success, deleteInProgress, deleteConfirmationOpen,
                  confirmationLeaving, filterModalOpen, filterModalLeaving,
                  fetching, runs, overlaps, selOrder, trackOrder >>

\* ------------------------------------------------------- search and filters
\* What the user types into the search box, and the options the user picks
\* in the filter dialog.
SearchTerms == { <<>>, <<"A", "P", "I">> }
SortChoices == { "updated", "name" }
LanguageChoices == { "", "Go" }
\* The options of the sort select.
SortKeys == { "updated", "created", "name", "stars", "forks" }

\* The search box, shown while the catalog is not empty.
setSearchTerm(term) ==
  /\ PageInteractive
  /\ Len(repositories) > 0
  /\ term # searchTerm
  /\ searchTerm' = term
  /\ repositories' = filterRepositoriesCatalog(repositories, term, filters)
  /\ UNCHANGED << overlaps, confirmationLeaving, filterModalOpen,
                  filterModalLeaving, trackOrder, filters, token, loading,
                  error, success, deleteInProgress, deleteConfirmationOpen,
                  fetching, runs, selOrder >>
  /\ EventRender

\* The values that one control of the filter dialog can give to filters:
\* setFilters({ ...filters, private | public | language | sortBy: value })
FilterChanges ==
  { [filters EXCEPT !.private = b] : b \in BOOLEAN }
  \cup { [filters EXCEPT !.public = b] : b \in BOOLEAN }
  \cup { [filters EXCEPT !.language = l] : l \in {""} \cup Range(languages) }
  \cup { [filters EXCEPT !.sortBy = key] : key \in SortKeys }

\* The Filters button, shown while the catalog is not empty:
\* setFilterModalOpen(true)
openFilterModal ==
  /\ PageInteractive
  /\ Len(repositories) > 0
  /\ filterModalOpen' = TRUE
  /\ UNCHANGED << overlaps, confirmationLeaving,
                  filterModalLeaving, trackOrder, searchTerm,
                  filters, token, repositories, loading, error, success,
                  deleteInProgress, deleteConfirmationOpen, fetching, runs,
                  selOrder >>
  /\ EventRender

\* Apply Filters button, close button and Dialog onClose of the filter
\* dialog: setFilterModalOpen(false), from a dialog that is open or leaving.
closeFilterModal ==
  /\ FilterModalOnScreen
  /\ filterModalOpen' = FALSE
  /\ filterModalLeaving' = TRUE
  /\ UNCHANGED << overlaps, confirmationLeaving, trackOrder,
                  searchTerm, filters, token, repositories, loading,
                  error, success, deleteInProgress, deleteConfirmationOpen,
                  fetching, runs, selOrder >>
  /\ IF filterModalOpen THEN EventRender
     ELSE UNCHANGED << filteredRepositories, languages >>

\* The leave transition of the filter dialog ends (200 ms).
filterModalLeaveEnd ==
  /\ filterModalLeaving
  /\ filterModalLeaving' = FALSE
  /\ UNCHANGED << overlaps, confirmationLeaving, filterModalOpen,
                  trackOrder, searchTerm, filters, token,
                  repositories, loading, error, success, deleteInProgress,
                  deleteConfirmationOpen, fetching, runs, selOrder >>
  /\ ContinuationRender

\* A control of the filter dialog.  The dialog is rendered outside of the
\* block of the catalog: it stays on the screen when the catalog empties.
setFilters(f) ==
  /\ FilterModalOnScreen
  /\ f \in FilterChanges
  /\ f # filters
  /\ filters' = f
  /\ repositories' = filterRepositoriesCatalog(repositories, searchTerm, f)
  /\ UNCHANGED << overlaps, confirmationLeaving, filterModalOpen,
                  filterModalLeaving, trackOrder, searchTerm, token, loading,
                  error, success, deleteInProgress, deleteConfirmationOpen,
                  fetching, runs, selOrder >>
  /\ EventRender

\* ------------------------------------------------------------ specification
Next ==
  \/ \E t \in Tokens : setToken(t)
  \/ fetchRepositories
  \/ \E result \in FetchResults : FetchReturn(result)
  \/ \E checked \in BOOLEAN : toggleSelectAll(checked)
  \/ \E id \in Ids : toggleRepository(id)
  \/ \E id \in Ids : removeFromSelection(id)
  \/ handleDeleteSelected
  \/ closeConfirmation
  \/ confirmationLeaveEnd
  \/ confirmDelete
  \/ \E r \in RunIds, resp \in IdentityResponses : ConfirmVerifyReturn(r, resp)
  \/ \E r \in RunIds, out \in DeleteOutcomes : DeleteReturn(r, out)
  \/ \E r \in RunIds : DelayElapsed(r)
  \/ \E r \in RunIds, result \in FetchResults : RefetchReturn(r, result)
  \/ runEffects

Spec == Init /\ [][Next]_vars

\* The program with its calls of confirmDelete made one at a time: none
\* starts while another is active.
InitSerial ==
  /\ token = ""
  /\ repositories = <<>>
  /\ searchTerm = <<>>
  /\ filters = DefaultFilters
  /\ languages = <<>>
  /\ filteredRepositories = <<>>
  /\ loading = FALSE
  /\ error = NoBanner
  /\ success = NoBanner
  /\ deleteInProgress = FALSE
  /\ deleteConfirmationOpen = FALSE
  /\ confirmationLeaving = FALSE
  /\ filterModalOpen = FALSE
  /\ filterModalLeaving = FALSE
  /\ fetching = 0
  /\ runs = [r \in RunIds |-> IdleRun]
  /\ overlaps = MaxOverlap
  /\ selOrder = <<>>
  /\ trackOrder = FALSE

SpecSerial == InitSerial /\ [][Next]_vars

\* The program after a load that returned the repositories of the account,
\* with the Load button not used again: the state that fetchRepositories
\* leaves once its effects have run, after n overlapping calls.
Loaded(n) ==
  /\ token \in Tokens
  /\ repositories = LoadedCatalog(Listing(MaxItems))
  /\ searchTerm = <<>>
  /\ filters = DefaultFilters
  /\ languages = languagesEffect(repositories, <<>>)
  /\ filteredRepositories = filterRepositories(repositories, searchTerm, filters)
  /\ loading = FALSE
  /\ error = NoBanner
  /\ success = NoBanner
  /\ deleteInProgress = FALSE
  /\ deleteConfirmationOpen = FALSE
  /\ confirmationLeaving = FALSE
  /\ filterModalOpen = FALSE
  /\ filterModalLeaving = FALSE
  /\ fetching = 0
  /\ runs = [r \in RunIds |-> IdleRun]
  /\ overlaps = n
  /\ selOrder = <<>>
  /\ trackOrder = FALSE
NextLoaded ==
  \/ \E checked \in BOOLEAN : toggleSelectAll(checked)
  \/ \E id \in Ids : toggleRepository(id)
  \/ \E id \in Ids : removeFromSelection(id)
  \/ handleDeleteSelected
  \/ closeConfirmation
  \/ confirmationLeaveEnd
  \/ confirmDelete
  \/ \E r \in RunIds, resp \in IdentityResponses : ConfirmVerifyReturn(r, resp)
  \/ \E r \in RunIds, out \in DeleteOutcomes : DeleteReturn(r, out)
  \/ \E r \in RunIds : DelayElapsed(r)
  \/ \E r \in RunIds, result \in FetchResults : RefetchReturn(r, result)
  \/ runEffects

\* Calls of confirmDelete that overlap, over a loaded catalog.
InitLoaded == Loaded(0)
SpecOverlap == InitLoaded /\ [][NextLoaded]_vars

\* The program in a world in which every request is answered and the timer
\* fires: each stage that a run awaits happens if it stays awaited.  The
\* calls of confirmDelete are made one at a time.
RunsProceed ==
  \A r \in RunIds :
    /\ WF_vars(\E resp \in IdentityResponses : ConfirmVerifyReturn(r, resp))
    /\ WF_vars(\E out \in DeleteOutcomes : DeleteReturn(r, out))
    /\ WF_vars(DelayElapsed(r))
    /\ WF_vars(\E result \in FetchResults : RefetchReturn(r, result))
SpecLive == InitSerial /\ [][Next]_vars /\ RunsProceed

\* The same program, with the order of the user's selections recorded up to
\* the first confirmation, where the run notes it together with the rows,
\* the search term and the filters of that moment; the calls of
\* confirmDelete are made one at a time.
InitOrder ==
  /\ token = ""
  /\ repositories = <<>>
  /\ searchTerm = <<>>
  /\ filters = DefaultFilters
  /\ languages = <<>>
  /\ filteredRepositories = <<>>
  /\ loading = FALSE
  /\ error = NoBanner
  /\ success = NoBanner
  /\ deleteInProgress = FALSE
  /\ deleteConfirmationOpen = FALSE
  /\ confirmationLeaving = FALSE
  /\ filterModalOpen = FALSE
  /\ filterModalLeaving = FALSE
  /\ fetching = 0
  /\ runs = [r \in RunIds |-> IdleRun]
  /\ overlaps = MaxOverlap
  /\ selOrder = <<>>
  /\ trackOrder = TRUE

\* The filter dialog in use beside the whole program: the order of the rows
\* and the items that they show change, before and after a confirmation.
OrderConfigs ==
  { DefaultFilters,
    [DefaultFilters EXCEPT !.sortBy = "name"],
    [DefaultFilters EXCEPT !.private = TRUE] }
NextOrder ==
  \/ Next
  \/ openFilterModal
  \/ \E f \in OrderConfigs : setFilters(f)
  \/ closeFilterModal
  \/ filterModalLeaveEnd

SpecOrder == InitOrder /\ [][NextOrder]_vars

\* The program over a loaded catalog with the search box and the filter
\* dialog in use, its calls of confirmDelete made one at a time.
\* The configurations that the user sets here: the initial one, with at most
\* one of its fields changed.
FilterConfigs ==
  { f \in [private : BOOLEAN, public : BOOLEAN, sortBy : SortChoices,
            language : LanguageChoices] :
      Cardinality({ field \in DOMAIN f : f[field] # DefaultFilters[field] }) <= 1 }
NextView ==
  \/ NextLoaded
  \/ \E term \in SearchTerms : setSearchTerm(term)
  \/ openFilterModal
  \/ \E f \in FilterConfigs : setFilters(f)
  \/ closeFilterModal
  \/ filterModalLeaveEnd

InitView == Loaded(MaxOverlap)
SpecView == InitView /\ [][NextView]_vars

\* filterRepositories on its own: a loaded catalog in any order, any search
\* term and any filter configuration, and the search box and the filter
\* dialog in use.  A language stays in filters when the catalog that offered
\* it is replaced, so that the configuration may name a language that no item
\* of the catalog has.
QueryTerms ==
  { <<>>, <<"A", "P", "I">>, <<" ", "l">>, <<"L", "I">>, <<"b", "l", "o", "g">>, <<"z">> }
LanguageTags == { "", "Go", "go", "TypeScript" }
AllFilterConfigs ==
  [private : BOOLEAN, public : BOOLEAN, sortBy : SortKeys, language : LanguageTags]
CatalogOrders ==
  { s \in UNION { [1..n -> 1..MaxCatalog] : n \in 0..MaxCatalog } :
      \A j, k \in DOMAIN s : j # k => s[j] # s[k] }
InitFilter ==
  /\ token \in Tokens
  /\ repositories \in { LoadedCatalog(data) : data \in CatalogOrders }
  /\ searchTerm \in QueryTerms
  /\ filters \in AllFilterConfigs
  /\ languages = languagesEffect(repositories, <<>>)
  /\ filteredRepositories = filterRepositories(repositories, searchTerm, filters)
  /\ loading = FALSE
  /\ error = NoBanner
  /\ success = NoBanner
  /\ deleteInProgress = FALSE
  /\ deleteConfirmationOpen = FALSE
  /\ confirmationLeaving = FALSE
  /\ filterModalOpen = FALSE
  /\ filterModalLeaving = FALSE
  /\ fetching = 0
  /\ runs = [r \in RunIds |-> IdleRun]
  /\ overlaps = 0
  /\ selOrder = <<>>
  /\ trackOrder = FALSE
NextFilter ==
  \/ \E term \in QueryTerms : setSearchTerm(term)
  \/ openFilterModal
  \/ \E f \in AllFilterConfigs : setFilters(f)
  \/ closeFilterModal
  \/ filterModalLeaveEnd

SpecFilter == InitFilter /\ [][NextFilter]_vars


\* ================================================================== claims
\* Vocabulary of the claims.  A run is a call of confirmDelete; its loop is
\* over when it awaits the refetch, and it ends in the step that takes its
\* pc back to "idle".
N(run) == Len(run.selectedRepos)
NOk(calls) == Cardinality({ k \in DOMAIN calls : calls[k].state = "ok" })
NFailed(calls) == Cardinality({ k \in DOMAIN calls : calls[k].state = "failed" })
NInFlight(calls) == Cardinality({ k \in DOMAIN calls : calls[k].state = "inflight" })
Refetching(run) == run.pc = "refetch"
\* the step in which run r ends because its last DELETE failed
EndsOnFailedCall(r) == runs[r].pc = "delete" /\ runs'[r].pc = "idle"
\* the step in which run r ends in its pre-flight verification
EndsInPreflight(r) == runs[r].pc = "verify" /\ runs'[r].pc = "idle"
IsFailureSummary(banner, n) ==
  \E f \in 1..n, s \in 0..n : banner = SummaryMsg(f, s)
Item(repos, id) == repos[CHOOSE k \in DOMAIN repos : repos[k].id = id]
InCatalog(repos, id) == \E k \in DOMAIN repos : repos[k].id = id
Pos(seq, x) == CHOOSE k \in DOMAIN seq : seq[k] = x

\* C1: in a run that has passed its verification, the DELETE calls made so
\* far are for the first items of the set selected at confirmation, one call
\* each, and the run leaves its loop only when all N items have had their
\* call: a failed call does not keep the later items from theirs.
C1_CallsSoFar ==
  \A r \in RunIds :
    /\ Len(runs[r].calls) = runs[r].i
    /\ runs[r].i <= N(runs[r])
    /\ \A k \in DOMAIN runs[r].calls : runs[r].calls[k].id = runs[r].selectedRepos[k]
    /\ \A j, k \in DOMAIN runs[r].selectedRepos :
          runs[r].selectedRepos[j] = runs[r].selectedRepos[k] => j = k
    /\ Refetching(runs[r]) => Len(runs[r].calls) = N(runs[r])
C1_EveryItemOneCall ==
  /\ []C1_CallsSoFar
  /\ [][\A r \in RunIds :
          /\ EndsOnFailedCall(r) => Len(runs[r].calls) = N(runs[r])
          /\ (runs[r].pc \in {"delete", "delay"} /\ runs[r].i < N(runs[r]))
               => runs'[r].pc \in {"delete", "delay"}
          /\ (runs[r].pc \in {"delete", "delay"} /\ runs'[r] # runs[r])
               => \/ runs'[r].pc = "delay" /\ runs'[r].i = runs[r].i
                  \/ runs'[r].pc = "delete" /\ runs'[r].i = runs[r].i + 1
                  \/ runs[r].i = N(runs[r])]_vars
\* a call failed and the call for the next item was made all the same
C1_Witness ==
  \E r \in RunIds :
    /\ Len(runs[r].calls) >= 2
    /\ runs[r].calls[1].state = "failed"

\* the step in which run r ends with the summary of its failures, after its
\* last call has failed (from delete) or succeeded (from delay)
EndsOnSummary(r) == runs[r].pc \in {"delete", "delay"} /\ runs'[r].pc = "idle"

\* C2: successCount and failureCount are the numbers of calls that succeeded
\* and failed; when the loop is over they add up to N, whether the run goes
\* on to the refetch (N, 0) or ends with the summary of its failures, which
\* names exactly these numbers, the last call having failed or succeeded.
C2_CountsSoFar ==
  \A r \in RunIds :
    /\ runs[r].successCount = NOk(runs[r].calls)
    /\ runs[r].failureCount = NFailed(runs[r].calls)
    /\ Refetching(runs[r]) =>
         /\ runs[r].successCount + runs[r].failureCount = N(runs[r])
         /\ runs[r].successCount = N(runs[r])
         /\ runs[r].failureCount = 0
C2_Counts ==
  /\ []C2_CountsSoFar
  /\ [][\A r \in RunIds :
          EndsOnSummary(r) =>
            LET failed == NFailed(runs[r].calls) + NInFlight(runs[r].calls)
                ok == NOk(runs[r].calls)
            IN  /\ Len(runs[r].calls) = N(runs[r])
                /\ failed + ok = N(runs[r])
                /\ failed > 0
                /\ error' = SummaryMsg(failed, ok)]_vars
\* a run over two items has reported (N-1, 1): the call for the first item
\* failed and the call for the second one succeeded
C2_Witness ==
  /\ error = SummaryMsg(1, 1)
  /\ ~deleteInProgress
  /\ Len(repositories) = 2
  /\ repositories[1].deleteStatus = "error"
  /\ repositories[2].deleteStatus = "success"

\* C3 (as claimed): when a run ends on a failed call, every item whose
\* earlier call failed has deleteStatus error with the remote message (or
\* the fallback), and every item whose call succeeded has deleteStatus
\* success.
HasOutcome(repos, call) ==
  /\ InCatalog(repos, call.id)
  /\ IF call.state = "ok"
     THEN Item(repos, call.id).deleteStatus = "success"
     ELSE /\ Item(repos, call.id).deleteStatus = "error"
          /\ Item(repos, call.id).errorMessage =
               (IF call.message # None THEN call.message ELSE MsgUnknown)
C3_StatusAtEnd ==
  [][\A r \in RunIds :
       EndsOnFailedCall(r) =>
         \A k \in 1..(Len(runs[r].calls) - 1) :
            HasOutcome(repositories', runs[r].calls[k])]_vars

\* C4: a run calls fetchRepositories once, after its loop, if no call
\* failed; it does not call it if a call failed or if it ends in pre-flight.
C4_RefetchSoFar ==
  \A r \in RunIds :
    /\ runs[r].refetches = (IF Refetching(runs[r]) THEN 1 ELSE 0)
    /\ Refetching(runs[r]) =>
         /\ runs[r].failureCount = 0
         /\ NFailed(runs[r].calls) = 0
         /\ runs[r].i = N(runs[r])
C4_RefetchOnce ==
  /\ []C4_RefetchSoFar
  /\ [][\A r \in RunIds :
          (runs[r].pc # "idle" /\ runs'[r].pc = "idle") =>
            IF Refetching(runs[r])
            THEN runs[r].refetches = 1
            ELSE /\ runs[r].refetches = 0
                 /\ \/ runs[r].pc = "verify"
                    \/ IsFailureSummary(error', N(runs[r]))]_vars
\* a run over two items, both deleted, awaits its refetch
C4_Witness ==
  \E r \in RunIds :
    /\ runs[r].pc = "refetch"
    /\ runs[r].successCount = 2
    /\ runs[r].refetches = 1

\* C5 (as claimed): a run started with nothing selected has no remote call
\* in flight (no identity lookup, no DELETE, no listing request).
C5_NoCallWhenNothingSelected ==
  \A r \in RunIds :
    runs[r].selectedRepos = <<>> =>
      runs[r].pc \notin {"verify", "delete", "refetch"}

\* C6: a run whose verification fails has made no DELETE call, and neither
\* its start nor its end writes the catalog; its end shows the message of
\* the verification error and clears deleteInProgress.
VerificationBanners ==
  { Banner(MsgNoScope), Banner(MsgInvalidToken), Banner(MsgVerifyFallback) }
  \cup { Banner(resp.message) : resp \in { x \in IdentityResponses :
                                             x.status \notin {200, 401} /\ x.message # "" } }
C6_PreflightAbort ==
  /\ [](\A r \in RunIds : runs[r].pc = "verify" => runs[r].calls = <<>>)
  /\ [][\A r \in RunIds :
          /\ (runs[r].pc = "idle" /\ runs'[r].pc = "verify")
               => repositories' = repositories
          /\ EndsInPreflight(r) =>
               /\ repositories' = repositories
               /\ runs[r].calls = <<>>
               /\ error' \in VerificationBanners
               /\ ~deleteInProgress']_vars
\* after an aborted run: the message is shown, the items are still selected
\* and carry no status, and nothing is in flight
C6_Witness ==
  /\ error = Banner(MsgInvalidToken)
  /\ ~deleteInProgress
  /\ ~loading
  /\ fetching = 0
  /\ Len(repositories) = 2
  /\ \A k \in DOMAIN repositories :
        repositories[k].selected /\ repositories[k].deleteStatus = "unset"

\* C7: every DELETE call of a run is made for the owner that the run's own
\* verification returned; a run starts without one.
C7_VerifiedInRun ==
  \A r \in RunIds :
    /\ runs[r].pc = "verify" => runs[r].username = None /\ runs[r].calls = <<>>
    /\ \A k \in DOMAIN runs[r].calls :
          runs[r].username = Login /\ runs[r].calls[k].owner = Login
C7_Witness ==
  \E r \in RunIds :
    /\ runs[r].pc = "delete"
    /\ runs[r].calls[1].owner = Login

\* C8 (as claimed): at most one DELETE call is in flight, over all runs.
DeletesInFlight ==
  LET RECURSIVE Sum(_)
      Sum(S) == IF S = {} THEN 0
                ELSE LET r == CHOOSE x \in S : TRUE
                     IN  NInFlight(runs[r].calls) + Sum(S \ {r})
  IN  Sum(RunIds)
C8_OneDeleteInFlight == DeletesInFlight <= 1
\* C9 (as claimed): when the first DELETE of a run is in flight, every item
\* of the run's set is pending.
C9_AllPendingBeforeFirstCall ==
  \A r \in RunIds :
    (runs[r].pc = "delete" /\ Len(runs[r].calls) = 1) =>
      \A k \in DOMAIN runs[r].selectedRepos :
         /\ InCatalog(repositories, runs[r].selectedRepos[k])
         /\ Item(repositories, runs[r].selectedRepos[k]).deleteStatus = "pending"

\* C10 (as claimed): the DELETE calls of a run are made in the order in
\* which the user selected the items, for the run whose order of selection
\* was recorded.
C10_SelectionOrder ==
  \A r \in RunIds :
    \A k \in DOMAIN runs[r].calls :
       k \in DOMAIN runs[r].order => runs[r].calls[k].id = runs[r].order[k]
\* C10 (amended): the DELETE calls of a run are made in the order in which
\* the selected items stood in the catalog at confirmation, whatever the
\* order in which the user selected them and the order in which the rows
\* showed them.
C10_CatalogOrder ==
  \A r \in RunIds :
    \A j, k \in DOMAIN runs[r].calls :
       /\ \E p \in DOMAIN runs[r].catalog : runs[r].catalog[p] = runs[r].calls[k].id
       /\ j < k => Pos(runs[r].catalog, runs[r].calls[j].id)
                     < Pos(runs[r].catalog, runs[r].calls[k].id)
\* both calls of a run have been made, in catalog order, where the user had
\* selected the two items in the other order and the rows, sorted by name,
\* showed them in the other order when the run was confirmed
C10_Witness ==
  \E r \in RunIds :
    /\ Len(runs[r].calls) = 2
    /\ Len(runs[r].order) = 2
    /\ runs[r].order[1] = runs[r].calls[2].id
    /\ Len(runs[r].view) = 1
    /\ runs[r].view[1].rows = << runs[r].calls[2].id, runs[r].calls[1].id >>
    /\ runs[r].catalog = << runs[r].calls[1].id, runs[r].calls[2].id >>

\* Vocabulary of the later claims.
SelectedIds(repos) == { repos[k].id : k \in { j \in DOMAIN repos : repos[j].selected } }
CallIds(run) == { run.calls[k].id : k \in DOMAIN run.calls }
InProgress(run) == run.pc \in {"verify", "delete", "delay"}
Shown(id) == \E d \in DOMAIN Rows : Rows[d].id = id
\* the results with which a call of fetchRepositories fails / succeeds
FailedFetches == { result \in FetchResults : ~result.ok }
LoadedFetches == { result \in FetchResults : result.ok }
\* a step of the user that changes the catalog
CatalogEdited ==
  fetching' = fetching /\ loading' = loading /\ repositories' # repositories /\ runs' = runs

\* C11: the set of a run is the set of the items selected when confirmDelete
\* starts; it stays as it is while the run lasts, whatever the user does to
\* the selection and to the filters and whatever the fetches load; the
\* DELETE calls are for items of this set, and for all of them once the loop
\* is over, whether the run goes on to the refetch or ends with the summary
\* of its failures.
C11_SetFixedAtConfirmation ==
  /\ [](\A r \in RunIds :
          /\ CallIds(runs[r]) \subseteq Range(runs[r].selectedRepos)
          /\ Refetching(runs[r]) => CallIds(runs[r]) = Range(runs[r].selectedRepos))
  /\ [][\A r \in RunIds :
          /\ (~RunActive(runs[r]) /\ RunActive(runs'[r]))
               => Range(runs'[r].selectedRepos) = SelectedIds(repositories)
          /\ (RunActive(runs[r]) /\ RunActive(runs'[r]))
               => runs'[r].selectedRepos = runs[r].selectedRepos
          /\ EndsOnSummary(r)
               => CallIds(runs[r]) = Range(runs[r].selectedRepos)]_vars
\* a DELETE is in flight for an item of the run's set; since the
\* confirmation a fetch has replaced the catalog, in which the item is
\* unmarked and unselected again, the user has selected an item that is not
\* in the run's set, and the filters have been changed so that the rows do
\* not show the item of the call
C11_Witness ==
  \E r \in RunIds :
    /\ runs[r].pc = "delete"
    /\ Len(runs[r].view) = 1
    /\ runs[r].view[1].filters # filters
    /\ \E d \in DOMAIN runs[r].view[1].rows :
          runs[r].view[1].rows[d] = runs[r].calls[Len(runs[r].calls)].id
    /\ ~Shown(runs[r].calls[Len(runs[r].calls)].id)
    /\ \E k \in DOMAIN repositories :
          /\ repositories[k].id = runs[r].calls[Len(runs[r].calls)].id
          /\ repositories[k].deleteStatus = "unset"
          /\ ~repositories[k].selected
    /\ SelectedIds(repositories) \ Range(runs[r].selectedRepos) # {}

\* C12 (as claimed): the deleteStatus of an item that stays in the catalog
\* changes along unset -> pending, pending -> success, pending -> error,
\* success -> pending and error -> pending only.  (A resolved item that a
\* fetch replaces by a fresh one is not held against the claim.)
StatusChangeAllowed(old, new) ==
  \/ old = new
  \/ << old, new >> \in { << "unset", "pending" >>, << "pending", "success" >>,
                         << "pending", "error" >>, << "success", "pending" >>,
                         << "error", "pending" >>, << "success", "unset" >>,
                         << "error", "unset" >> }
C12_StatusTransitions ==
  [][\A id \in Ids :
       (InCatalog(repositories, id) /\ InCatalog(repositories', id))
         => StatusChangeAllowed(Item(repositories, id).deleteStatus,
                                Item(repositories', id).deleteStatus)]_vars

\* C13 (as claimed): while a run is in progress (from its start until its
\* last item has been processed) no step changes the catalog's sequence of
\* identifiers, and the run's own steps leave the selected flags alone.
C13_CatalogFixedDuringRun ==
  [][\A r \in RunIds :
       InProgress(runs[r]) =>
         /\ IdsOf(repositories') = IdsOf(repositories)
         /\ runs'[r] # runs[r] =>
              \A k \in DOMAIN repositories :
                 repositories'[k].selected = repositories[k].selected]_vars

\* C14: when fetchRepositories fails, in its verification or in its listing
\* request, the catalog is empty afterwards and the banner shows the
\* message of the error.
FailureShown(result) ==
  /\ repositories' = <<>>
  /\ Rows' = <<>>
  /\ result.message # ""
  /\ error' = Banner(result.message)
  /\ ~loading'
C14_FailedFetchClears ==
  [][/\ fetching' < fetching =>
          \A result \in FailedFetches : FetchReturn(result) => FailureShown(result)
     /\ runs' # runs =>
          \A r \in RunIds :
            (Refetching(runs[r]) /\ ~Refetching(runs'[r])) =>
              \A result \in FailedFetches :
                 RefetchReturn(r, result) => FailureShown(result)]_vars
\* the fallback message of a failed listing request is shown and the
\* catalog is empty, while a run over items of the former catalog goes on
C14_Witness ==
  /\ error = Banner(MsgFetchFallback)
  /\ repositories = <<>>
  /\ \E r \in RunIds : runs[r].pc = "delete" /\ N(runs[r]) = 2

\* C15: when fetchRepositories succeeds, the catalog is the listing, item by
\* item in its order, and every item is unselected, without status and
\* without error message.
ListingLoaded(result) ==
  /\ Len(repositories') = Len(result.data)
  /\ \A k \in DOMAIN result.data :
        /\ repositories'[k].id = result.data[k]
        /\ ~repositories'[k].selected
        /\ repositories'[k].deleteStatus = "unset"
        /\ repositories'[k].errorMessage = None
C15_FetchReplaces ==
  [][/\ fetching' < fetching =>
          \A result \in LoadedFetches : FetchReturn(result) => ListingLoaded(result)
     /\ runs' # runs =>
          \A r \in RunIds :
            (Refetching(runs[r]) /\ ~Refetching(runs'[r])) =>
              \A result \in LoadedFetches :
                 RefetchReturn(r, result) => ListingLoaded(result)]_vars
\* an item has been deleted by a run that awaits its timer, and the catalog
\* holds the item again, fresh: a fetch has replaced the catalog since
C15_Witness ==
  \E r \in RunIds :
    /\ runs[r].pc = "delay"
    /\ Len(repositories) = 2
    /\ \A k \in DOMAIN repositories : repositories[k] = FreshItem(repositories[k].id)
    /\ InCatalog(repositories, runs[r].calls[1].id)

\* C16: verifyTokenPermissions gives the login when the lookup succeeds and
\* one entry of the scope list, white space aside, is delete_repo; it fails
\* with the insufficient-scope message when the lookup succeeds without it,
\* with the invalid-credential message on status 401, and with the message
\* of the error (a fallback if it has none) otherwise; the three can be
\* told apart.
GrantsDelete(h) ==
  \E k \in DOMAIN h :
    /\ h[k] = "delete_repo"
    /\ \A j \in 1..(k - 1) : (\A m \in j..(k - 1) : h[m] # ",") => h[j] = " "
    /\ \A j \in (k + 1)..Len(h) : (\A m \in (k + 1)..j : h[m] # ",") => h[j] = " "
OutcomesDistinct ==
  /\ MsgNoScope # MsgInvalidToken
  /\ \A resp \in IdentityResponses :
        /\ verifyTokenPermissions(resp).ok
             <=> (resp.status = 200 /\ GrantsDelete(resp.scopes))
        /\ resp.status \notin {200, 401}
             => verifyTokenPermissions(resp).message \notin {MsgNoScope, MsgInvalidToken}
C16_VerifyOutcomes ==
  /\ []OutcomesDistinct
  /\ [][runs' # runs => \A r \in RunIds :
          (runs[r].pc = "verify" /\ runs'[r].pc # "verify") =>
            \A resp \in IdentityResponses :
              ConfirmVerifyReturn(r, resp) =>
                IF resp.status = 200 /\ GrantsDelete(resp.scopes)
                THEN RunActive(runs'[r]) /\ runs'[r].username = Login
                ELSE /\ ~RunActive(runs'[r])
                     /\ error' = IF resp.status = 200 THEN Banner(MsgNoScope)
                                 ELSE IF resp.status = 401 THEN Banner(MsgInvalidToken)
                                 ELSE IF resp.message # "" THEN Banner(resp.message)
                                 ELSE Banner(MsgVerifyFallback)]_vars
\* a run has ended on the insufficient-scope message
C16_Witness ==
  /\ error = Banner(MsgNoScope)
  /\ ~deleteInProgress
  /\ \E k \in DOMAIN repositories : repositories[k].selected

\* C17: toggleSelectAll(checked) gives selected = checked to every item of
\* the catalog, displayed or not, and changes nothing else of the catalog.
C17_SelectAllWholeCatalog ==
  [][\A checked \in BOOLEAN :
       (CatalogEdited /\ toggleSelectAll(checked)) =>
         /\ Len(repositories') = Len(repositories)
         /\ \A k \in DOMAIN repositories :
               repositories'[k] = [repositories[k] EXCEPT !.selected = checked]]_vars
\* every item is selected, one of them hidden by the filters and one of
\* them with the status of a finished run
C17_Witness ==
  /\ Len(repositories) = 2
  /\ \A k \in DOMAIN repositories : repositories[k].selected
  /\ \E k \in DOMAIN repositories : ~Shown(repositories[k].id)
  /\ \E k \in DOMAIN repositories : repositories[k].deleteStatus = "error"

\* C18 (as claimed): toggleRepository(id) flips the selected flag of the
\* item id and changes nothing else of the catalog; there is no such step
\* for an item that is pending.
C18_ToggleOne ==
  [][\A id \in Ids :
       (CatalogEdited /\ toggleRepository(id)) =>
         /\ InCatalog(repositories, id)
         /\ Item(repositories, id).deleteStatus # "pending"
         /\ Len(repositories') = Len(repositories)
         /\ \A k \in DOMAIN repositories :
               repositories'[k] =
                 IF repositories[k].id = id
                 THEN [repositories[k] EXCEPT !.selected = ~repositories[k].selected]
                 ELSE repositories[k]]_vars

\* C19: removeFromSelection(id) clears the selected flag of the item id and
\* changes nothing else of the catalog; a dialog that is open is closed by
\* this step if no item remains selected, and stays open otherwise.
C19_RemoveFromSelection ==
  [][\A id \in Ids :
       (CatalogEdited /\ removeFromSelection(id)) =>
         /\ Len(repositories') = Len(repositories)
         /\ \A k \in DOMAIN repositories :
               repositories'[k] =
                 IF repositories[k].id = id
                 THEN [repositories[k] EXCEPT !.selected = FALSE]
                 ELSE repositories[k]
         /\ deleteConfirmationOpen' =
              (deleteConfirmationOpen /\ SelectedIds(repositories') # {})]_vars
\* the dialog is open over one item, the other one is not selected
C19_Witness ==
  /\ deleteConfirmationOpen
  /\ Len(repositories) = 2
  /\ Cardinality(SelectedIds(repositories)) = 1

\* C20 (as claimed): a change of the search term or of the filters leaves
\* the catalog as it is, and in every state the rows are the items of the
\* catalog that pass the filters, each shown with the selected flag that it
\* has in the catalog.
C20_SelectionIndependentOfFilter ==
  /\ [](/\ \A d \in DOMAIN Rows :
              /\ InCatalog(repositories, Rows[d].id)
              /\ Rows[d].selected = Item(repositories, Rows[d].id).selected
        /\ \A k \in DOMAIN repositories :
              Kept(repositories[k], searchTerm, filters)
                <=> \E d \in DOMAIN Rows : Rows[d].id = repositories[k].id)
  /\ [][(searchTerm' # searchTerm \/ filters' # filters)
          => repositories' = repositories]_vars
\* ---------------------------------------------------------------------------
\* The text holds the term at offset k, whatever the case of the letters.
HoldsAt(text, term, k) ==
  \A j \in 1..Len(term) : Lower(text[k + j]) = Lower(term[j])
ContainsIgnoringCase(text, term) ==
  \E k \in 0..(Len(text) - Len(term)) : HoldsAt(text, term, k)
\* The matching rule of the search for the item with identifier id.
SearchRule(id) ==
  \/ searchTerm = <<>>
  \/ ContainsIgnoringCase(RemoteRepo(id).name, searchTerm)
  \/ /\ RemoteRepo(id).description # None
     /\ ContainsIgnoringCase(RemoteRepo(id).description, searchTerm)
\* The item passes the visibility rule and the language rule.
PassesVisibility(id) ==
  (filters.private # filters.public) => (RemoteRepo(id).private <=> filters.private)
PassesLanguage(id) ==
  filters.language # "" => RemoteRepo(id).language = filters.language

\* C21: an item of the catalog passes the search step of filterRepositories
\* exactly if the query is empty, or is a substring of its name whatever the
\* case, or its description is not null and holds the query whatever the
\* case: among the items that the visibility and language rules keep, the
\* displayed ones are those of the matching rule, and an item with a null
\* description is displayed under a query only if its name holds the query.
C21_SearchRule ==
  \A k \in DOMAIN repositories :
    LET id == repositories[k].id
    IN  /\ Shown(id) <=> (SearchRule(id) /\ PassesVisibility(id) /\ PassesLanguage(id))
        /\ (Shown(id) /\ searchTerm # <<>> /\ RemoteRepo(id).description = None)
              => ContainsIgnoringCase(RemoteRepo(id).name, searchTerm)
\* A query that only the description of one item holds displays that item
\* alone, and not the item of null description beside it.
C21_Witness ==
  /\ searchTerm = <<" ", "l">>
  /\ Len(repositories) = 3
  /\ IdsOf(filteredRepositories) = << 2 >>
  /\ ~ContainsIgnoringCase(RemoteRepo(2).name, searchTerm)
  /\ RemoteRepo(1).description = None

\* ---------------------------------------------------------------------------
\* C22: for the four combinations of the show-private and show-public flags:
\* with the private flag alone the displayed items are the private items that
\* pass the search and the language rule, with the public flag alone the
\* public ones, and with both flags or neither every item that passes the
\* search and the language rule is displayed, whatever its visibility.
C22_VisibilityRule ==
  \A k \in DOMAIN repositories :
    LET id == repositories[k].id
        others == SearchRule(id) /\ PassesLanguage(id)
    IN  /\ (filters.private /\ ~filters.public)
              => (Shown(id) <=> (RemoteRepo(id).private /\ others))
        /\ (filters.public /\ ~filters.private)
              => (Shown(id) <=> (~RemoteRepo(id).private /\ others))
        /\ (filters.private /\ filters.public) => (Shown(id) <=> others)
        /\ (~filters.private /\ ~filters.public) => (Shown(id) <=> others)
\* With the private flag alone, a catalog of private and public items shows
\* its private items and leaves out a public item that passes the other rules.
C22_Witness ==
  /\ filters.private /\ ~filters.public
  /\ \E d \in DOMAIN filteredRepositories : RemoteRepo(filteredRepositories[d].id).private
  /\ \E k \in DOMAIN repositories :
        /\ ~RemoteRepo(repositories[k].id).private
        /\ SearchRule(repositories[k].id) /\ PassesLanguage(repositories[k].id)
        /\ ~Shown(repositories[k].id)

\* ---------------------------------------------------------------------------
\* C23: with a language filter set, the displayed items are exactly the items
\* that pass the search and the visibility rule and whose language tag is the
\* filter's value, letter case included; an item with a null language tag is
\* not displayed; with no language filter every item that passes the search
\* and the visibility rule is displayed.
C23_LanguageRule ==
  \A k \in DOMAIN repositories :
    LET id == repositories[k].id
        others == SearchRule(id) /\ PassesVisibility(id)
    IN  /\ filters.language # ""
              => /\ Shown(id) <=> (others /\ RemoteRepo(id).language = filters.language)
                 /\ RemoteRepo(id).language = None => ~Shown(id)
        /\ (filters.language = "go" /\ RemoteRepo(id).language = "Go") => ~Shown(id)
        /\ filters.language = "" => (Shown(id) <=> others)
\* With the filter on "Go", a catalog with a Go item, a TypeScript item and
\* an item of null language shows the Go item alone.
C23_Witness ==
  /\ filters.language = "Go"
  /\ IdsOf(filteredRepositories) = << 1 >>
  /\ \E k \in DOMAIN repositories :
        /\ RemoteRepo(repositories[k].id).language = None
        /\ SearchRule(repositories[k].id) /\ PassesVisibility(repositories[k].id)
  /\ \E k \in DOMAIN repositories :
        /\ RemoteRepo(repositories[k].id).language = "TypeScript"
        /\ SearchRule(repositories[k].id) /\ PassesVisibility(repositories[k].id)

\* ---------------------------------------------------------------------------
\* The value an item is sorted by, larger first, for the four numeric keys.
KeyOf(id, sortBy) ==
  CASE sortBy = "updated" -> RemoteRepo(id).updated_at
    [] sortBy = "created" -> RemoteRepo(id).created_at
    [] sortBy = "stars" -> RemoteRepo(id).stargazers_count
    [] sortBy = "forks" -> RemoteRepo(id).forks_count
\* Item a may stand before item b; the two compare equal.
InOrder(sortBy, a, b) ==
  IF sortBy = "name" THEN localeCompare(RemoteRepo(a).name, RemoteRepo(b).name) <= 0
  ELSE KeyOf(a, sortBy) >= KeyOf(b, sortBy)
Tied(sortBy, a, b) == InOrder(sortBy, a, b) /\ InOrder(sortBy, b, a)
CatalogPos(id) == CHOOSE k \in DOMAIN repositories : repositories[k].id = id

\* C24: the displayed subset is ordered by the chosen key (last-modified,
\* creation time, stars and forks descending, name ascending), and two
\* displayed items that compare equal under the key stand in the order they
\* have in the catalog.
C24_SortedAndStable ==
  LET shown == IdsOf(filteredRepositories)
  IN  \A i, j \in DOMAIN shown :
        i < j => /\ InOrder(filters.sortBy, shown[i], shown[j])
                 /\ Tied(filters.sortBy, shown[i], shown[j])
                      => CatalogPos(shown[i]) < CatalogPos(shown[j])
\* Sorted by stars, the catalog 3, 2, 1 with 0, 1 and 1 stars is displayed as
\* 2, 1, 3: the item without stars goes last and the two tied items keep
\* the catalog's order, which is not the order of their names or dates.
C24_Witness ==
  /\ filters.sortBy = "stars"
  /\ IdsOf(repositories) = << 3, 2, 1 >>
  /\ IdsOf(filteredRepositories) = << 2, 1, 3 >>
  /\ Tied("stars", 2, 1)
  /\ ~InOrder("name", 2, 1) /\ ~InOrder("created", 2, 1)

\* ---------------------------------------------------------------------------
\* filterRepositories, run on the catalog as it stands and run again on the
\* catalog as that run has left it: the catalog's array is as it was, the
\* second list is the first, and the first is the list displayed.
RunAgainGivesTheSame ==
  LET first == filterRepositoriesRun(repositories, searchTerm, filters)
      again == filterRepositoriesRun(first.arrays[CatalogRef], searchTerm, filters)
  IN  /\ first.arrays[CatalogRef] = repositories
      /\ again.arrays[again.filtered] = first.arrays[first.filtered]
      /\ first.arrays[first.filtered] = filteredRepositories

\* C25: filterRepositories derives and does not write.  In every state its
\* run leaves the catalog's array as it is, order and fields, and so does
\* the step in which the search term or the filters change and the effect
\* runs it; run again on the catalog as its run has left it, with the same
\* term and filters, it gives the list that it gave, which is the list
\* displayed; every displayed item is an item of the catalog, with all its
\* fields, and no item is displayed twice.
C25_PureDerivation ==
  /\ [](/\ RunAgainGivesTheSame
        /\ \A d \in DOMAIN filteredRepositories :
              \E k \in DOMAIN repositories : filteredRepositories[d] = repositories[k]
        /\ \A d, e \in DOMAIN filteredRepositories :
              d # e => filteredRepositories[d].id # filteredRepositories[e].id)
  /\ [][(searchTerm' # searchTerm \/ filters' # filters)
           => repositories' = repositories]_vars
\* Sorted by name and filtered, the displayed list is a part of the catalog
\* in another order than the catalog's, which stays as loaded.
C25_Witness ==
  /\ filters.sortBy = "name"
  /\ filters.private /\ ~filters.public
  /\ IdsOf(repositories) = << 3, 2, 1 >>
  /\ IdsOf(filteredRepositories) = << 1, 3 >>

\* ---------------------------------------------------------------------------
\* The list holds each non-null language tag of the catalog once, in the
\* order of the strings, and nothing else.
TagPos(l) == CHOOSE k \in DOMAIN TagOrder : TagOrder[k] = l
IsLanguageListOf(list, repos) ==
  /\ \A k \in DOMAIN repos :
        RemoteRepo(repos[k].id).language # None
          => \E j \in DOMAIN list : list[j] = RemoteRepo(repos[k].id).language
  /\ \A j \in DOMAIN list :
        \E k \in DOMAIN repos : RemoteRepo(repos[k].id).language = list[j]
  /\ \A i, j \in DOMAIN list : i < j => TagPos(list[i]) < TagPos(list[j])

\* C26: in every state in which the effects of the last render have run,
\* after a fetch that loaded the catalog, a fetch that failed and cleared it
\* or the refetch after a batch, the list of available languages holds the
\* distinct non-null language tags of the whole current catalog, in
\* lexicographic order.
C26_LanguagesFollowCatalog ==
  EffectsDone => IsLanguageListOf(languages, repositories)

\* ---------------------------------------------------------------------------
\* C27: a run without a failed call ends with the full-success report on
\* display: in the step in which it completes after a refetch that loaded the
\* catalog, the success banner holds the full-success message and the error
\* banner is empty.
C27_FullSuccessShown ==
  [][\A r \in RunIds :
       (runs[r].pc = "refetch" /\ runs'[r].pc = "idle")
         => \A result \in LoadedFetches :
              RefetchReturn(r, result)
                => /\ runs[r].failureCount = 0
                   /\ ~deleteInProgress'
                   /\ success' = Banner(MsgAllDeleted)
                   /\ error' = NoBanner]_vars

\* ---------------------------------------------------------------------------
\* A step of run r itself: a response or the timer it awaits arrives.
OwnStage(r) ==
  \/ \E resp \in IdentityResponses : ConfirmVerifyReturn(r, resp)
  \/ \E out \in DeleteOutcomes : DeleteReturn(r, out)
  \/ DelayElapsed(r)
  \/ \E result \in FetchResults : RefetchReturn(r, result)

\* C28: closing the confirmation dialog without confirming starts no run and
\* no fetch, and leaves every item's deleteStatus and selected flag as they
\* are; and a confirmed run is out of the user's reach: only the responses
\* and the timer it awaits change its frame, and once its loop has begun it
\* ends only after the DELETE call for the last item of its set.
C28_CancelOnlyBeforeConfirm ==
  [][/\ closeConfirmation
          => /\ runs' = runs /\ fetching' = fetching
             /\ repositories' = repositories
             /\ deleteInProgress' = deleteInProgress
     /\ runs' # runs
          => \A r \in RunIds :
               /\ (RunActive(runs[r]) /\ runs'[r] # runs[r]) => OwnStage(r)
               /\ (runs[r].pc \in {"delete", "delay"} /\ runs'[r].pc \in {"idle", "refetch"})
                    => /\ Len(runs[r].calls) = N(runs[r])
                       /\ \A k \in DOMAIN runs[r].calls :
                             runs[r].calls[k].id = runs[r].selectedRepos[k]]_vars
\* A run has sent the DELETE for the last of its two items although the user
\* has cleared the selection since the confirmation; the dialog is closed.
C28_Witness ==
  /\ ~deleteConfirmationOpen
  /\ SelectedIds(repositories) = {}
  /\ \E r \in RunIds :
        /\ runs[r].pc = "delete"
        /\ N(runs[r]) = 2
        /\ Len(runs[r].calls) = 2

\* ---------------------------------------------------------------------------
\* C29: if every remote call returns and the timer fires, every confirmed run
\* completes: the frame of a run that exists is eventually gone, and
\* deleteInProgress, once true, is eventually false again, whether the run
\* ends in the pre-flight verification, with failed calls, or with the
\* refetch, loaded or failed.
C29_RunCompletes ==
  /\ \A r \in RunIds : RunActive(runs[r]) ~> ~RunActive(runs[r])
  /\ deleteInProgress ~> ~deleteInProgress
\* A run on the all-success path: its two calls succeeded and it awaits the
\* refetch, with deleteInProgress still set.
C29_Witness ==
  /\ deleteInProgress
  /\ \E r \in RunIds :
        /\ Refetching(runs[r])
        /\ N(runs[r]) = 2
        /\ NOk(runs[r].calls) = 2

\* ---------------------------------------------------------------------------
\* C30: within a run, the step in which a DELETE call returns with success
\* sets the item's status to success and starts the delay, and the next call
\* is sent by the step in which that one delay elapses; the step in which a
\* DELETE call returns with a failure sends the next call itself, without a
\* delay.
C30_DelayAfterSuccessOnly ==
  [][runs' # runs =>
      \A r \in RunIds :
        LET run == runs[r]
            after == runs'[r]
            more == run.i < N(run)
        IN  /\ (run.pc = "delete" /\ after # run /\ after.pc = "delay")
                 => /\ after.calls[run.i].state = "ok"
                    /\ Len(after.calls) = Len(run.calls)
                    /\ \A k \in DOMAIN repositories' :
                          repositories'[k].id = run.selectedRepos[run.i]
                            => repositories'[k].deleteStatus = "success"
            /\ (run.pc = "delete" /\ after # run /\ after.pc # "delay")
                 => /\ more => /\ after.pc = "delete"
                               /\ Len(after.calls) = Len(run.calls) + 1
                               /\ after.calls[run.i].state = "failed"
                    /\ after.pc = "idle" => run.calls # <<>>
            /\ (run.pc = "delete" /\ after # run)
                 => \A out \in DeleteOutcomes :
                      DeleteReturn(r, out) => (out.ok <=> after.pc = "delay")
            /\ (run.pc = "delay" /\ after # run)
                 => /\ run.calls[run.i].state = "ok"
                    /\ more => /\ after.pc = "delete"
                               /\ Len(after.calls) = Len(run.calls) + 1
                    /\ ~more => after.pc \in {"idle", "refetch"}]_vars
\* The first call of a run failed and its second call succeeded: the second
\* call was sent in the step of the failure, and the run now waits in the
\* delay with the second item's status set to success.
C30_Witness ==
  \E r \in RunIds :
    /\ runs[r].pc = "delay"
    /\ Len(runs[r].calls) = 2
    /\ runs[r].calls[1].state = "failed"
    /\ runs[r].calls[2].state = "ok"
    /\ \E k \in DOMAIN repositories :
          /\ repositories[k].id = runs[r].selectedRepos[2]
          /\ repositories[k].deleteStatus = "success"

\* ---------------------------------------------------------------------------
\* C31: every item that is set to pending is resolved by the end of the run:
\* in a state in which no run is active and deleteInProgress is false, no
\* item of the catalog has deleteStatus pending.
C31_NoPendingLeftBehind ==
  (~deleteInProgress /\ \A r \in RunIds : ~RunActive(runs[r]))
    => \A k \in DOMAIN repositories : repositories[k].deleteStatus # "pending"

\* ---------------------------------------------------------------------------
\* C32: whenever the confirmation dialog is open, at least one item of the
\* catalog is selected.
C32_DialogHasSelection ==
  deleteConfirmationOpen => \E k \in DOMAIN repositories : repositories[k].selected

\* ---------------------------------------------------------------------------
\* C33: the selected flag of an item does not change while the item's
\* deleteStatus is pending: no step changes the flag of an item that is
\* pending before the step and is still in the catalog after it.
C33_PendingSelectionLocked ==
  [][repositories' # repositories =>
      \A k \in DOMAIN repositories :
        repositories[k].deleteStatus = "pending"
          => \A j \in DOMAIN repositories' :
               (repositories'[j].id = repositories[k].id
                  /\ repositories'[j].deleteStatus = "pending")
                 => repositories'[j].selected = repositories[k].selected]_vars

\* ---------------------------------------------------------------------------
\* C34: once an item's deleteStatus is success, no run issues a DELETE call
\* for it while it stays in the catalog: a run does not start with such an
\* item in its set, and no step sends a call for an item that the catalog
\* shows as success.
C34_NoCallForDeleted ==
  [][runs' # runs =>
      \A r \in RunIds :
        /\ (~RunActive(runs[r]) /\ RunActive(runs'[r]))
             => \A k \in DOMAIN repositories :
                  repositories[k].deleteStatus = "success"
                    => repositories[k].id \notin Range(runs'[r].selectedRepos)
        /\ Len(runs'[r].calls) > Len(runs[r].calls)
             => \A k \in DOMAIN repositories :
                  repositories[k].deleteStatus = "success"
                    => repositories[k].id # runs'[r].calls[Len(runs'[r].calls)].id]_vars

\* ---------------------------------------------------------------------------
\* C35: in every state an item carries an error message only if its
\* deleteStatus is error.
C35_ErrorMessageOnlyOnError ==
  \A k \in DOMAIN repositories :
    repositories[k].errorMessage # None => repositories[k].deleteStatus = "error"

\* ---------------------------------------------------------------------------
\* The calls of fetchRepositories whose requests are in flight: those of the
\* Load button and those that runs await.
FetchesInFlight ==
  fetching + Cardinality({ r \in RunIds : Refetching(runs[r]) })

\* C36: loading is true in every state in which a call of fetchRepositories
\* is in flight, and at most one is in flight at a time.
C36_LoadingCoversFetch ==
  /\ FetchesInFlight > 0 => loading
  /\ FetchesInFlight <= 1

\* ---------------------------------------------------------------------------
\* C37 (as claimed): deleteInProgress is true exactly in the states in which
\* a run is active, from its confirmation to its completion, the refetch
\* included; while it is true the confirmation dialog is not open, and at
\* most one run is active at any time.
C37_OneRunUnderFlag ==
  /\ deleteInProgress <=> \E r \in RunIds : RunActive(runs[r])
  /\ deleteInProgress => ~deleteConfirmationOpen
  /\ \A r, q \in RunIds : (RunActive(runs[r]) /\ RunActive(runs[q])) => r = q
=============================================================================
